---- MODULE Spec2Model ----
(***************************************************************************)
(* Model of src/gdb-svd.py: the "svd get", "svd set" and "svd info"        *)
(* commands over a loaded device description, the bit-field arithmetic of  *)
(* set_register / get_field_value, the access policy of allowed_to_read /  *)
(* allowed_to_write, and the read / write transport calls on a target      *)
(* whose memory an external agent may change at any time.                  *)
(***************************************************************************)
EXTENDS Integers, Sequences, FiniteSets, TLC

VARIABLES
    mem,        \* target memory: address -> word
    pc,         \* "idle": at the prompt; "set_write": a field-scoped set between its
                \* read and its write; "get_read": a get between two rows of its
                \* table; "done": a command has returned
    pend,       \* the set in flight (register, field, value, the word read)
    op,         \* the outcome of the last command that ran to its end
    disturbed   \* an external agent changed memory since the last set issued its read

vars == <<mem, pc, pend, op, disturbed>>

----------------------------------------------------------------------------
(* Bounds of the model *)

\* width of a target word in bits
WordBits == 2
\* largest magnitude of a value argument of "svd set"
MaxValue == 4

----------------------------------------------------------------------------
(* Python integers: unbounded, two's complement bitwise operators *)

RECURSIVE Pow2(_)
Pow2(n) == IF n <= 0 THEN 1 ELSE 2 * Pow2(n - 1)

\* x << n
Shl(x, n) == x * Pow2(n)

\* x >> n (arithmetic: floor division)
Shr(x, n) == x \div Pow2(n)

\* ~x
Not(x) == (0 - x) - 1

\* x & y
RECURSIVE And(_, _)
And(x, y) ==
    IF x = 0 \/ y = 0 THEN 0
    ELSE IF x = 0 - 1 THEN y
    ELSE IF y = 0 - 1 THEN x
    ELSE (x % 2) * (y % 2) + 2 * And(x \div 2, y \div 2)

\* x | y
RECURSIVE Or(_, _)
Or(x, y) ==
    IF x = 0 THEN y
    ELSE IF y = 0 THEN x
    ELSE IF x = 0 - 1 \/ y = 0 - 1 THEN 0 - 1
    ELSE (IF x % 2 = 1 \/ y % 2 = 1 THEN 1 ELSE 0) + 2 * Or(x \div 2, y \div 2)

----------------------------------------------------------------------------
(* Strings: sequences of one-character strings *)

\* The alphabet of the model. A character is a one-character string: the
\* printing characters of Latin-1 except the grave accent, and the control
\* characters that are white space. Beyond Latin-1 the alphabet has, written by
\* code point as "U+0178", the characters str.upper() maps a character of
\* Latin-1 to, the two it maps to a letter of Latin-1, and the white space.
\* Every string of the model is over Chars, and upper, int16 and
\* pattern_value are defined for strings over Chars only: what the code does
\* with other characters (the letters and digits of other scripts) is not
\* modelled.
Chars ==
    {" ", "!", "\"", "#", "$", "%", "&", "'", "(", ")", "*", "+", ",",
     "-", ".", "/", "0", "1", "2", "3", "4", "5", "6", "7", "8", "9",
     ":", ";", "<", "=", ">", "?", "@", "A", "B", "C", "D", "E", "F",
     "G", "H", "I", "J", "K", "L", "M", "N", "O", "P", "Q", "R", "S",
     "T", "U", "V", "W", "X", "Y", "Z", "[", "\\", "]", "^", "_", "a",
     "b", "c", "d", "e", "f", "g", "h", "i", "j", "k", "l", "m", "n",
     "o", "p", "q", "r", "s", "t", "u", "v", "w", "x", "y", "z", "{",
     "|", "}", "~", " ", "¡", "¢", "£", "¤", "¥", "¦", "§", "¨", "©",
     "ª", "«", "¬", "­", "®", "¯", "°", "±", "²", "³", "´", "µ", "¶",
     "·", "¸", "¹", "º", "»", "¼", "½", "¾", "¿", "À", "Á", "Â", "Ã",
     "Ä", "Å", "Æ", "Ç", "È", "É", "Ê", "Ë", "Ì", "Í", "Î", "Ï", "Ð",
     "Ñ", "Ò", "Ó", "Ô", "Õ", "Ö", "×", "Ø", "Ù", "Ú", "Û", "Ü", "Ý",
     "Þ", "ß", "à", "á", "â", "ã", "ä", "å", "æ", "ç", "è", "é", "ê",
     "ë", "ì", "í", "î", "ï", "ð", "ñ", "ò", "ó", "ô", "õ", "ö", "÷",
     "ø", "ù", "ú", "û", "ü", "ý", "þ", "ÿ",
     "\t", "\n", "", "\f", "\r", "",
     "U+0131", "U+0178", "U+017F", "U+039C", "U+1680", "U+2000", "U+2001",
     "U+2002", "U+2003", "U+2004", "U+2005", "U+2006", "U+2007", "U+2008",
     "U+2009", "U+200A", "U+2028", "U+2029", "U+202F", "U+205F", "U+3000"}

\* the strings over Chars
over_chars(s) == \A k \in 1..Len(s) : s[k] \in Chars

\* the lower-case letters whose capital is one character of Latin-1, and
\* their capitals
Lower == <<"a", "b", "c", "d", "e", "f", "g", "h", "i", "j", "k", "l", "m",
          "n", "o", "p", "q", "r", "s", "t", "u", "v", "w", "x", "y", "z",
          "à", "á", "â", "ã", "ä", "å", "æ", "ç", "è", "é", "ê", "ë", "ì",
          "í", "î", "ï", "ð", "ñ", "ò", "ó", "ô", "õ", "ö", "ø", "ù", "ú",
          "û", "ü", "ý", "þ">>
Upper == <<"A", "B", "C", "D", "E", "F", "G", "H", "I", "J", "K", "L", "M",
          "N", "O", "P", "Q", "R", "S", "T", "U", "V", "W", "X", "Y", "Z",
          "À", "Á", "Â", "Ã", "Ä", "Å", "Æ", "Ç", "È", "É", "Ê", "Ë", "Ì",
          "Í", "Î", "Ï", "Ð", "Ñ", "Ò", "Ó", "Ô", "Õ", "Ö", "Ø", "Ù", "Ú",
          "Û", "Ü", "Ý", "Þ">>

\* the characters of Chars that str.upper() changes
Cased == {Lower[k] : k \in 1..Len(Lower)} \cup {"ß", "ÿ", "µ", "U+0131", "U+017F"}

\* str.upper() of one character of Chars, as a string: a lower-case letter
\* becomes its capital, the sharp s becomes SS, a character that is no
\* lower-case letter stays
upper_char(c) ==
    CASE \E k \in 1..Len(Lower) : Lower[k] = c
             -> <<Upper[CHOOSE k \in 1..Len(Lower) : Lower[k] = c]>>
      [] c = "ß"            -> <<"S", "S">>
      [] c = "ÿ"            -> <<"U+0178">>
      [] c = "µ"            -> <<"U+039C">>
      [] c = "U+0131"       -> <<"I">>
      [] c = "U+017F"       -> <<"S">>
      [] c \in Chars \ Cased -> <<c>>

\* s.upper()
RECURSIVE upper_to(_, _)
upper_to(s, n) == IF n = 0 THEN <<>> ELSE upper_to(s, n - 1) \o upper_char(s[n])

upper(s) == upper_to(s, Len(s))

\* s.startswith(prefix)
startswith(s, prefix) ==
    /\ Len(prefix) <= Len(s)
    /\ SubSeq(s, 1, Len(prefix)) = prefix

HexChars == <<"0", "1", "2", "3", "4", "5", "6", "7",
              "8", "9", "a", "b", "c", "d", "e", "f">>

\* the value of a hexadecimal digit, upper or lower case; -1 for any other character
HexDigit(c) ==
    CASE c = "0" -> 0 [] c = "1" -> 1 [] c = "2" -> 2 [] c = "3" -> 3
      [] c = "4" -> 4 [] c = "5" -> 5 [] c = "6" -> 6 [] c = "7" -> 7
      [] c = "8" -> 8 [] c = "9" -> 9
      [] c \in {"a", "A"} -> 10 [] c \in {"b", "B"} -> 11 [] c \in {"c", "C"} -> 12
      [] c \in {"d", "D"} -> 13 [] c \in {"e", "E"} -> 14 [] c \in {"f", "F"} -> 15
      [] OTHER -> 0 - 1

RECURSIVE HexMagnitude(_)
HexMagnitude(s) ==
    IF s = <<>> THEN 0
    ELSE 16 * HexMagnitude(SubSeq(s, 1, Len(s) - 1)) + HexDigit(s[Len(s)])

\* the characters of Chars int() skips as white space: blank, tab, line feed, carriage return, form
\* feed, vertical tab, next line, no-break space, and the spaces and line
\* separators beyond Latin-1
Whitespace ==
    {" ", "\t", "\n", "\r", "\f", "", "", " ",
     "U+1680", "U+2000", "U+2001", "U+2002", "U+2003", "U+2004",
     "U+2005", "U+2006", "U+2007", "U+2008", "U+2009", "U+200A",
     "U+2028", "U+2029", "U+202F", "U+205F", "U+3000"}

\* s without the white space at its ends
strip(s) ==
    LET inked == {k \in 1..Len(s) : s[k] \notin Whitespace}
    IN  IF inked = {} THEN <<>>
        ELSE SubSeq(s, CHOOSE k \in inked : \A j \in inked : k <= j,
                       CHOOSE k \in inked : \A j \in inked : j <= k)

\* the digits of a number text: they are hexadecimal digits with single
\* underscores between them
valid_digits(body) ==
    /\ body # <<>>
    /\ \A k \in 1..Len(body) : body[k] = "_" \/ HexDigit(body[k]) >= 0
    /\ body[1] # "_"
    /\ body[Len(body)] # "_"
    /\ \A k \in 1..(Len(body) - 1) : ~(body[k] = "_" /\ body[k + 1] = "_")

\* the number text without its sign
unsigned_text(t) == IF t # <<>> /\ t[1] \in {"+", "-"} THEN Tail(t) ELSE t

\* the number text without its 0x or 0X prefix and the underscore that may follow it
digits_text(u) ==
    IF Len(u) >= 2 /\ u[1] = "0" /\ u[2] \in {"x", "X"}
    THEN SubSeq(u, IF Len(u) >= 3 /\ u[3] = "_" THEN 4 ELSE 3, Len(u))
    ELSE u

int16_digits(neg, body) ==
    IF ~valid_digits(body) THEN [ok |-> FALSE, v |-> 0]
    ELSE [ok |-> TRUE,
          v  |-> (IF neg THEN 0 - 1 ELSE 1)
                     * HexMagnitude(SelectSeq(body, LAMBDA c : c # "_"))]

int16_stripped(t) ==
    int16_digits(t # <<>> /\ t[1] = "-", digits_text(unsigned_text(t)))

\* int(s, 16): [ok, v]; ok is FALSE where Python raises ValueError.  White
\* space at the ends, a sign, a 0x or 0X prefix and single underscores between
\* digits (one may follow the prefix) are accepted; for strings over Chars
int16(s) == CASE over_chars(s) -> int16_stripped(strip(s))

----------------------------------------------------------------------------
(* Device description: the tree GdbSvd.invoke loads and hands to the commands *)

\* SVDAccessType values, and None for an access the description leaves out
AccessNone == "None"
READ_ONLY == "read-only"
WRITE_ONLY == "write-only"
READ_WRITE == "read-write"
WRITE_ONCE == "writeOnce"
READ_WRITE_ONCE == "read-writeOnce"

AccessTypes == {AccessNone, READ_ONLY, WRITE_ONLY, READ_WRITE, WRITE_ONCE, READ_WRITE_ONCE}

Field(name, bit_offset, bit_width, access) ==
    [name |-> name, bit_offset |-> bit_offset, bit_width |-> bit_width, access |-> access]

Register(name, address_offset, access, fields) ==
    [name |-> name, address_offset |-> address_offset, reset_value |-> 0,
     access |-> access, fields |-> fields]

Peripheral(name, base_address, registers) ==
    [name |-> name, base_address |-> base_address, access |-> AccessNone,
     registers |-> registers]

\* device.peripherals, in file order.  GPIO carries one register per access
\* type and overlapping fields; U1 is a proper prefix of U10; Tim is declared
\* with lower-case letters.  Registers may share an address.
Peripherals == <<
    Peripheral(<<"G", "P", "I", "O">>, 0, <<
        Register(<<"C", "R">>, 0, AccessNone, <<
            Field(<<"E", "N">>, 0, 1, AccessNone),
            Field(<<"H", "I">>, 1, 1, READ_WRITE),
            Field(<<"O", "V">>, 0, 2, READ_ONLY) >>),
        Register(<<"C", "R", "2">>, 1, READ_WRITE, <<
            Field(<<"M", "S", "B">>, 1, 1, WRITE_ONLY) >>),
        Register(<<"S", "R">>, 0, READ_ONLY, <<
            Field(<<"F">>, 0, 1, AccessNone) >>),
        Register(<<"D", "R">>, 1, WRITE_ONLY, <<
            Field(<<"D">>, 0, 2, AccessNone) >>),
        Register(<<"K", "R">>, 1, WRITE_ONCE, << >>),
        Register(<<"L", "R">>, 0, READ_WRITE_ONCE, << >>) >>),
    Peripheral(<<"U", "1">>, 0, <<
        Register(<<"C", "R">>, 1, AccessNone, <<
            Field(<<"E", "N">>, 0, 1, AccessNone) >>) >>),
    Peripheral(<<"U", "1", "0">>, 1, <<
        Register(<<"C", "R">>, 0, AccessNone, <<
            Field(<<"E", "N">>, 0, 1, AccessNone) >>),
        Register(<<"S", "R">>, 0, READ_ONLY, << >>) >>),
    Peripheral(<<"T", "i", "m">>, 0, <<
        Register(<<"C", "n", "t">>, 0, READ_WRITE, << >>) >>) >>

\* register.parent.base_address + register.address_offset
address(peripheral, register) == peripheral.base_address + register.address_offset

\* every address a register of the device lives at
Addresses ==
    UNION {{address(Peripherals[p], Peripherals[p].registers[r]) :
               r \in 1..Len(Peripherals[p].registers)} : p \in 1..Len(Peripherals)}

Indices(seq) == [k \in 1..Len(seq) |-> k]

----------------------------------------------------------------------------
(* Access policy *)

allowed_to_read_wo(access) ==
    access \in {AccessNone, READ_ONLY, WRITE_ONLY, READ_WRITE, READ_WRITE_ONCE}

allowed_to_read(access) ==
    access \in {AccessNone, READ_ONLY, READ_WRITE, READ_WRITE_ONCE}

allowed_to_write(access) ==
    access \in {AccessNone, WRITE_ONLY, READ_WRITE, WRITE_ONCE, READ_WRITE_ONCE}

----------------------------------------------------------------------------
(* Bit-field arithmetic *)

\* (reg_values >> bit_offset) & ((1 << bit_width) - 1)
get_field_value(bit_offset, bit_width, reg_values) ==
    And(Shr(reg_values, bit_offset), Pow2(bit_width) - 1)

\* max_val = (1 << field.bit_width) - 1
max_val(field) == Shl(1, field.bit_width) - 1

\* the width check of set_register: raise when value > max_val
value_too_wide(value, field) == value > max_val(field)

set_register_merge_no_clear(val, value, field) ==
    Or(val, Shl(value, field.bit_offset))

\* mask = max_val << bit_offset; val &= ~mask; val |= value << bit_offset
set_register_merge(val, value, field) ==
    LET mask == Shl(max_val(field), field.bit_offset)
    IN  Or(And(val, Not(mask)), Shl(value, field.bit_offset))

----------------------------------------------------------------------------
(* Transport: gdb.execute of the read and write command templates *)

Words == 0..(Pow2(WordBits) - 1)

\* what gdb.execute of a read command can do: reply the address, a colon and
\* the word in hexadecimal, reply a text the pattern does not match, or raise
ReplyKinds == {"hex", "noparse", "raise"}

\* a word or an address as the backend prints it: eight lower-case
\* hexadecimal digits
ToHex(w) == [k \in 1..8 |-> HexChars[((w \div Pow2(4 * (8 - k))) % 16) + 1]]

\* the text gdb.execute returns for a read of the word w at addr: the reply
\* the pattern is written for, or the data abort the code's comment names
reply_text(kind, addr, w) ==
    CASE kind = "hex"     -> <<"0", "x">> \o ToHex(addr) \o <<":", " ">> \o ToHex(w)
                                 \o <<" ", "\n">>
      [] kind = "noparse" -> <<"d", "a", "t", "a", " ", "a", "b", "o", "r", "t", "\n">>
      [] OTHER            -> <<>>

\* the characters of Chars \w matches: letters, digits and the underscore
WordChars ==
    {Lower[k] : k \in 1..Len(Lower)} \cup {Upper[k] : k \in 1..Len(Upper)}
        \cup {"0", "1", "2", "3", "4", "5", "6", "7", "8", "9", "_"}
        \cup {"ª", "²", "³", "µ", "¹", "º", "¼", "½", "¾", "ß", "ÿ",
              "U+0178", "U+039C", "U+0131", "U+017F"}

\* the length of the longest run at the head of text of characters in chars
run_length(text, chars) ==
    CHOOSE n \in 0..Len(text) :
        /\ \A k \in 1..n : text[k] \in chars
        /\ n < Len(text) => text[n + 1] \notin chars

\* what [a-f0-9]+ takes of text after the blanks " *?" skips
value_at(text) ==
    SubSeq(text, run_length(text, {" "}) + 1,
           run_length(text, {" "})
               + run_length(SubSeq(text, run_length(text, {" "}) + 1, Len(text)),
                            {HexChars[k] : k \in 1..Len(HexChars)}))

\* group VALUE of re.search of "(?P<ADDR>\w+):( *?(?P<VALUE>[a-f0-9]+))" in
\* text: of the first colon that follows a \w character and is followed, after
\* any blanks, by a character of [a-f0-9]; <<>> when there is no match; for
\* texts over Chars
pattern_value(text) ==
    LET hits == {c \in 2..Len(text) :
                    /\ text[c] = ":"
                    /\ text[c - 1] \in WordChars
                    /\ value_at(SubSeq(text, c + 1, Len(text))) # <<>>}
    IN  CASE over_chars(text) ->
            IF hits = {} THEN <<>>
            ELSE value_at(SubSeq(text, (CHOOSE c \in hits : \A d \in hits : c <= d) + 1,
                                 Len(text)))

\* what the pattern captures of the reply to a read of every word at every
\* address, and the integer of what it captures, computed once
HexText ==
    [kind \in ReplyKinds |-> [addr \in Addresses |-> [w \in Words |->
        pattern_value(reply_text(kind, addr, w))]]]
HexInt ==
    [digits \in {HexText[kind][addr][w] :
                    kind \in ReplyKinds, addr \in Addresses, w \in Words}
        |-> int16(digits)]

\* the backend's answer to a read of addr: digits is what the pattern captures
execute_read(m, kind, addr) ==
    [kind |-> kind, digits |-> HexText[kind][addr][m[addr]]]

\* the target stores the low WordBits bits of the word written
store(m, addr, val) == [m EXCEPT ![addr] = val % Pow2(WordBits)]

\* a transport command as issued, with what gdb.execute did with it
ReadCmd(addr, kind) == [cmd |-> "read", address |-> addr, value |-> 0, reply |-> kind]
WriteCmd(addr, val, fails) ==
    [cmd |-> "write", address |-> addr, value |-> val,
     reply |-> IF fails THEN "raise" ELSE "done"]

read_failure_as_int(peripheral, register, reply) ==
    IF ~allowed_to_read(register.access)
    THEN [raised |-> "NotReadableError", isint |-> FALSE, val |-> 0, log |-> <<>>]
    ELSE LET addr   == address(peripheral, register)
             parsed == HexInt[reply.digits]
         IN  [raised |-> "none", isint |-> TRUE,
              val |-> IF reply.kind # "raise" /\ reply.digits # <<>> /\ parsed.ok
                      THEN parsed.v ELSE 0,
              log |-> <<ReadCmd(addr, reply.kind)>>]

\* read(register): raises NotReadableError before any command; returns the
\* parsed integer, or the caught exception itself when the command raises or
\* the reply does not match
read(peripheral, register, reply) ==
    IF ~allowed_to_read(register.access)
    THEN [raised |-> "NotReadableError", isint |-> FALSE, val |-> 0, log |-> <<>>]
    ELSE LET addr   == address(peripheral, register)
             parsed == HexInt[reply.digits]
         IN  IF reply.kind # "raise" /\ reply.digits # <<>> /\ parsed.ok
             THEN [raised |-> "none", isint |-> TRUE, val |-> parsed.v,
                   log |-> <<ReadCmd(addr, reply.kind)>>]
             ELSE [raised |-> "none", isint |-> FALSE, val |-> 0,
                   log |-> <<ReadCmd(addr, reply.kind)>>]

write_execute_first(peripheral, register, val, fails) ==
    LET addr == address(peripheral, register)
    IN  IF fails
        THEN [raised |-> "gdb.error", stored |-> FALSE, addr |-> addr,
              log |-> <<WriteCmd(addr, val, fails)>>]
        ELSE IF ~allowed_to_write(register.access)
        THEN [raised |-> "NotWritableError", stored |-> TRUE, addr |-> addr,
              log |-> <<WriteCmd(addr, val, fails)>>]
        ELSE [raised |-> "none", stored |-> TRUE, addr |-> addr,
              log |-> <<WriteCmd(addr, val, fails)>>]

\* write(register, val): raises NotWritableError before any command; the
\* command itself may raise
write(peripheral, register, val, fails) ==
    LET addr == address(peripheral, register)
    IN  IF ~allowed_to_write(register.access)
        THEN [raised |-> "NotWritableError", stored |-> FALSE, addr |-> addr, log |-> <<>>]
        ELSE IF fails
        THEN [raised |-> "gdb.error", stored |-> FALSE, addr |-> addr,
              log |-> <<WriteCmd(addr, val, fails)>>]
        ELSE [raised |-> "none", stored |-> TRUE, addr |-> addr,
              log |-> <<WriteCmd(addr, val, fails)>>]

----------------------------------------------------------------------------
(* Outcome of a command *)

NoOp ==
    [cmd |-> "none", args |-> <<>>, outcome |-> "none",
     pm |-> <<>>, rm |-> <<>>, fm |-> <<>>,     \* the matches listed, by index
     p |-> 0, r |-> 0, f |-> 0,                 \* the entity the command went on with
     rows |-> <<>>,                             \* the register table written
     value |-> 0,                               \* the value argument of a set
     word |-> 0,                                \* the word a field-scoped set read
     log |-> <<>>]                              \* the transport commands issued

NoPend == [p |-> 0, r |-> 0, f |-> 0, value |-> 0, val |-> 0, log |-> <<>>]

----------------------------------------------------------------------------
(* Register table of "svd get" *)

\* get_register_row: "value" row, "access" row for a register that may not be
\* read, "error" row for any other exception of read; kind "raise" when the
\* row itself raises (the value read is no integer)
get_register_row(p, r, reply) ==
    LET peripheral == Peripherals[p]
        register   == peripheral.registers[r]
        got        == read(peripheral, register, reply)
    IN  IF got.raised = "NotReadableError"
        THEN [reg |-> r, kind |-> "access", value |-> 0, log |-> got.log]
        ELSE IF got.raised # "none"
        THEN [reg |-> r, kind |-> "error", value |-> 0, log |-> got.log]
        ELSE IF ~got.isint
        THEN [reg |-> r, kind |-> "raise", value |-> 0, log |-> got.log]
        ELSE [reg |-> r, kind |-> "value", value |-> got.val, log |-> got.log]

\* print_registers, one turn of its loop: the row of the next register of
\* o.rm is added to the rows got so far, kind being what the backend does with
\* the read.  The table is written after the last row; a row that raises ends
\* the command with no table written
print_registers(o, m, kind) ==
    LET k    == Len(o.rows) + 1
        r    == o.rm[k]
        addr == address(Peripherals[o.p], Peripherals[o.p].registers[r])
        row  == get_register_row(o.p, r, execute_read(m, kind, addr))
    IN  IF row.kind = "raise"
        THEN [o EXCEPT !.outcome = "TypeError", !.rows = <<>>, !.log = @ \o row.log]
        ELSE [o EXCEPT !.outcome = IF k = Len(o.rm) THEN "Registers" ELSE "pending",
                       !.rows    = Append(@, [reg |-> row.reg, kind |-> row.kind,
                                              value |-> row.value]),
                       !.log     = @ \o row.log]

----------------------------------------------------------------------------
(* Name matching of "svd get" and "svd info" *)

\* filter(lambda x: x.name.startswith(peripheral_arg), self.device.peripherals)
peripheral_matches(peripheral_arg) ==
    SelectSeq(Indices(Peripherals),
              LAMBDA i : startswith(Peripherals[i].name, peripheral_arg))

\* filter(lambda x: x.name.startswith(register_arg), peripheral.registers)
register_matches(p, register_arg) ==
    SelectSeq(Indices(Peripherals[p].registers),
              LAMBDA i : startswith(Peripherals[p].registers[i].name, register_arg))

\* filter(lambda x: x.name.startswith(field_arg), register.fields)
field_matches(p, r, field_arg) ==
    SelectSeq(Indices(Peripherals[p].registers[r].fields),
              LAMBDA i : startswith(Peripherals[p].registers[r].fields[i].name, field_arg))

----------------------------------------------------------------------------
(* svd get [peripheral] [register] *)

\* GdbSvdGetCmd.invoke up to the point where registers are read
get_resolve(args) ==
    LET base == [NoOp EXCEPT !.cmd = "get", !.args = args]
    IN  IF Len(args) > 2 THEN [base EXCEPT !.outcome = "InvalidParameter"]
        ELSE IF Len(args) = 0 THEN [base EXCEPT !.outcome = "IndexError"]
        ELSE
        LET peripheral_arg == upper(args[1])
            pm             == peripheral_matches(peripheral_arg)
        IN  IF Len(pm) = 0 THEN [base EXCEPT !.outcome = "NoPeripheral"]
            ELSE IF Len(pm) > 1
            THEN [base EXCEPT !.outcome = "MultiplePeripherals", !.pm = pm]
            ELSE IF Len(args) = 1
            THEN [base EXCEPT !.outcome = "Registers", !.pm = pm, !.p = pm[1],
                              !.rm = Indices(Peripherals[pm[1]].registers)]
            ELSE
            LET register_arg == upper(args[2])
                rm           == register_matches(pm[1], register_arg)
            IN  IF Len(rm) = 0
                THEN [base EXCEPT !.outcome = "NoRegister", !.pm = pm, !.p = pm[1]]
                ELSE [base EXCEPT !.outcome = "Registers", !.pm = pm, !.p = pm[1],
                                  !.rm = rm]

----------------------------------------------------------------------------
(* svd info <peripheral> [register] [field] *)

\* GdbSvdInfoCmd.invoke; raw_empty: the argument string is empty
info_invoke(args, raw_empty) ==
    LET base == [NoOp EXCEPT !.cmd = "info", !.args = args]
    IN  IF raw_empty
        THEN [base EXCEPT !.outcome = "Peripherals", !.pm = Indices(Peripherals)]
        ELSE IF ~(1 <= Len(args) /\ Len(args) <= 3)
        THEN [base EXCEPT !.outcome = "InvalidParameter"]
        ELSE
        LET peripheral_arg == upper(args[1])
            pm             == peripheral_matches(peripheral_arg)
        IN  IF Len(pm) = 0 THEN [base EXCEPT !.outcome = "NoPeripheral"]
            ELSE IF Len(pm) > 1
            THEN [base EXCEPT !.outcome = "MultiplePeripherals", !.pm = pm]
            ELSE IF Len(args) = 1
            THEN [base EXCEPT !.outcome = "RegisterDescs", !.pm = pm, !.p = pm[1],
                              !.rm = Indices(Peripherals[pm[1]].registers)]
            ELSE
            LET register_arg == upper(args[2])
                rm           == register_matches(pm[1], register_arg)
                pbase        == [base EXCEPT !.pm = pm, !.p = pm[1]]
            IN  IF Len(rm) = 0 THEN [pbase EXCEPT !.outcome = "NoRegister"]
                ELSE IF Len(rm) > 1
                THEN [pbase EXCEPT !.outcome = "MultipleRegisters", !.rm = rm]
                ELSE IF Len(args) = 2
                THEN [pbase EXCEPT !.outcome = "FieldDescs", !.rm = rm, !.r = rm[1],
                          !.fm = Indices(Peripherals[pm[1]].registers[rm[1]].fields)]
                ELSE
                LET field_arg == upper(args[3])
                    fm        == field_matches(pm[1], rm[1], field_arg)
                    rbase     == [pbase EXCEPT !.rm = rm, !.r = rm[1]]
                IN  IF Len(fm) = 0 THEN [rbase EXCEPT !.outcome = "NoField"]
                    ELSE [rbase EXCEPT !.outcome = "FieldDescs", !.fm = fm]

----------------------------------------------------------------------------
(* svd set <peripheral> <register> [field] <value> *)

\* self.peripherals[name]: the dict GdbSvd.invoke builds, keyed by declared
\* name (a later peripheral of the same name replaces an earlier one); 0: KeyError
peripherals_lookup(name) ==
    LET hits == {i \in 1..Len(Peripherals) : Peripherals[i].name = name}
    IN  IF hits = {} THEN 0 ELSE CHOOSE i \in hits : \A j \in hits : j <= i

\* [r for r in peripheral.registers if r.name == register_name][0]; 0: IndexError
register_lookup(p, register_name) ==
    LET regs == Peripherals[p].registers
        hits == {i \in 1..Len(regs) : regs[i].name = register_name}
    IN  IF hits = {} THEN 0 ELSE CHOOSE i \in hits : \A j \in hits : i <= j

\* [f for f in register.fields if f.name == field_name][0]; 0: IndexError
field_lookup(p, r, field_name) ==
    LET fields == Peripherals[p].registers[r].fields
        hits   == {i \in 1..Len(fields) : fields[i].name = field_name}
    IN  IF hits = {} THEN 0 ELSE CHOOSE i \in hits : \A j \in hits : i <= j

\* GdbSvdSetCmd.invoke up to the call of set_register
set_resolve(args) ==
    LET base == [NoOp EXCEPT !.cmd = "set", !.args = args]
        p    == IF Len(args) = 0 THEN 0 ELSE peripherals_lookup(upper(args[1]))
    IN  IF p = 0 THEN [base EXCEPT !.outcome = "InvalidPeripheral"]
        ELSE IF Len(args) < 3 \/ Len(args) > 4
        THEN [base EXCEPT !.outcome = "InvalidParameter", !.p = p]
        ELSE
        LET r == register_lookup(p, upper(args[2]))
        IN  IF r = 0 THEN [base EXCEPT !.outcome = "IndexError", !.p = p]
            ELSE
            LET f     == IF Len(args) = 4 THEN field_lookup(p, r, upper(args[3])) ELSE 0
                value == int16(args[Len(args)])
                rbase == [base EXCEPT !.p = p, !.r = r]
            IN  IF Len(args) = 4 /\ f = 0 THEN [rbase EXCEPT !.outcome = "IndexError"]
                ELSE IF ~value.ok THEN [rbase EXCEPT !.outcome = "ValueError", !.f = f]
                ELSE [rbase EXCEPT !.outcome = "set_register", !.f = f,
                                   !.value = value.v]

\* set_register up to and including its read: the width check, then
\* read(register); a whole-register set reads nothing
set_register_begin(p, r, f, value, m, kind) ==
    LET peripheral == Peripherals[p]
        register   == peripheral.registers[r]
        addr       == address(peripheral, register)
    IN  IF f = 0 THEN [outcome |-> "write", val |-> value, log |-> <<>>]
        ELSE IF value_too_wide(value, register.fields[f])
        THEN [outcome |-> "ValueTooWide", val |-> 0, log |-> <<>>]
        ELSE LET got == read(peripheral, register, execute_read(m, kind, addr))
             IN  IF got.raised # "none"
                 THEN [outcome |-> got.raised, val |-> 0, log |-> got.log]
                 ELSE IF ~got.isint
                 THEN [outcome |-> "TypeError", val |-> 0, log |-> got.log]
                 ELSE [outcome |-> "write", val |-> got.val, log |-> got.log]

\* set_register from the merge on: val &= ~mask; val |= value << bit_offset;
\* write(register, val)
set_register_finish(p, r, f, value, val, fails) ==
    LET peripheral == Peripherals[p]
        register   == peripheral.registers[r]
        final      == IF f = 0 THEN val
                      ELSE set_register_merge(val, value, register.fields[f])
        w          == write(peripheral, register, final, fails)
    IN  [outcome |-> IF w.raised = "none" THEN "ok" ELSE w.raised,
         stored  |-> w.stored, addr |-> w.addr, final |-> final, log |-> w.log]

----------------------------------------------------------------------------
(* Inputs *)

GPIO == <<"G", "P", "I", "O">>
CR == <<"C", "R">>

PeripheralArgs ==
    {GPIO, <<"g", "p">>, <<"U">>, <<"U", "1">>, <<"u", "1", "0">>,
     <<"T", "i", "m">>, <<"t">>, <<"X">>, <<>>}

RegisterArgs == {<<"C">>, CR, <<"c", "r", "2">>, <<"s">>, <<"D", "R">>, <<"X">>, <<>>}

\* the value argument as typed: a hexadecimal number, negative or not, with
\* white space around it or not, or no number
ValueArgs ==
    {<<HexChars[v + 1]>> : v \in 0..MaxValue}
        \cup {<<"-", "1">>, <<"0", "x", "1">>, <<"\t", "1", "\n">>, <<"z">>}

GetArgs ==
    {<<>>}
        \cup {<<pa>> : pa \in PeripheralArgs}
        \cup {<<pa, ra>> : pa \in {GPIO, <<"u", "1", "0">>}, ra \in RegisterArgs}
        \cup {<<<<"U", "1">>, CR>>, <<GPIO, CR, <<"E", "N">> >>}

InfoArgs ==
    {<<>>}
        \cup {<<pa>> : pa \in PeripheralArgs}
        \cup {<<pa, ra>> : pa \in {GPIO, <<"u", "1", "0">>}, ra \in RegisterArgs}
        \cup {<<GPIO, ra, fa>> : ra \in {<<"C">>, CR, <<"s">>},
                                 fa \in {<<"E">>, <<"h", "i">>, <<"X">>, <<>>}}
        \cup {<<<<"U", "1">>, CR>>, <<GPIO, CR, <<"E", "N">>, <<"1">> >>}

\* register and field, as typed for a field-scoped set
SetTargets ==
    {<<CR, <<"E", "N">> >>, <<CR, <<"h", "i">> >>, <<CR, <<"O", "V">> >>,
     <<<<"C", "R", "2">>, <<"M", "S", "B">> >>, <<<<"S", "R">>, <<"F">> >>,
     <<<<"D", "R">>, <<"D">> >>, <<CR, <<"E">> >>, <<<<"C">>, <<"E", "N">> >>}

SetArgs ==
    {<<>>, <<GPIO>>, <<GPIO, CR>>, <<GPIO, CR, <<"E", "N">>, <<"1">>, <<"1">> >>}
        \cup {<<pa, CR, <<"1">> >> :
                pa \in {<<"U", "1">>, <<"U">>, <<"T", "i", "m">>, <<"g", "p", "i", "o">>}}
        \cup {<<GPIO, ra, va>> :
                ra \in {CR, <<"C", "R", "2">>, <<"S", "R">>, <<"D", "R">>, <<"K", "R">>,
                        <<"L", "R">>, <<"C">>},
                va \in ValueArgs}
        \cup {<<GPIO, t[1], t[2], va>> : t \in SetTargets, va \in ValueArgs}

\* Resolution reads only the device description, which never changes after
\* load: the resolved form of every command line, computed once
GetResolved == [args \in GetArgs |-> get_resolve(args)]
InfoResolved == [args \in InfoArgs |-> [raw_empty \in BOOLEAN |->
                    info_invoke(args, raw_empty)]]
SetResolved == [args \in SetArgs |-> set_resolve(args)]

----------------------------------------------------------------------------
(* State machine *)

Init ==
    /\ mem \in [Addresses -> Words]
    /\ pc = "idle"
    /\ pend = NoPend
    /\ op = NoOp
    /\ disturbed = FALSE

\* svd get, to the call of print_registers
Get(args) ==
    /\ pc = "idle"
    /\ LET res == GetResolved[args]
       IN  IF res.outcome = "Registers" /\ res.rm # <<>>
           THEN op' = [res EXCEPT !.outcome = "pending"] /\ pc' = "get_read"
           ELSE op' = res /\ pc' = "done"
    /\ disturbed' = FALSE
    /\ UNCHANGED <<mem, pend>>

\* the next register of the listing: its read, when it may be read, is a round
\* trip to the backend of its own
GetRead(kind) ==
    /\ pc = "get_read"
    /\ op' = print_registers(op, mem, kind)
    /\ pc' = IF op'.outcome = "pending" THEN "get_read" ELSE "done"
    /\ UNCHANGED <<mem, pend, disturbed>>

\* svd info; raw_empty: nothing at all was typed after the command
Info(args, raw_empty) ==
    /\ pc = "idle"
    /\ op' = InfoResolved[args][raw_empty]
    /\ pc' = "done"
    /\ disturbed' = FALSE
    /\ UNCHANGED <<mem, pend>>

\* svd set that ends before set_register is called
SetRejected(res) ==
    /\ res.outcome # "set_register"
    /\ op' = res
    /\ pc' = "done"
    /\ UNCHANGED <<mem, pend>>

\* whole-register set: write(register, value) at once
SetWhole(res) ==
    /\ res.outcome = "set_register"
    /\ res.f = 0
    /\ \E fails \in BOOLEAN :
          LET b == set_register_begin(res.p, res.r, 0, res.value, mem, "hex")
              e == set_register_finish(res.p, res.r, 0, res.value, b.val, fails)
          IN  /\ op' = [res EXCEPT !.outcome = e.outcome, !.log = e.log]
              /\ mem' = IF e.stored THEN store(mem, e.addr, e.final) ELSE mem
    /\ pc' = "done"
    /\ UNCHANGED pend

\* field-scoped set, to the reply of its read
SetField(res) ==
    /\ res.outcome = "set_register"
    /\ res.f # 0
    /\ \E kind \in ReplyKinds :
          LET b == set_register_begin(res.p, res.r, res.f, res.value, mem, kind)
          IN  IF b.outcome # "write"
              THEN /\ op' = [res EXCEPT !.outcome = b.outcome, !.log = b.log]
                   /\ pc' = "done"
                   /\ UNCHANGED pend
              ELSE /\ pc' = "set_write"
                   /\ pend' = [p |-> res.p, r |-> res.r, f |-> res.f,
                               value |-> res.value, val |-> b.val, log |-> b.log]
                   /\ op' = [res EXCEPT !.outcome = "pending", !.word = b.val,
                                        !.log = b.log]
    /\ UNCHANGED mem

\* svd set, to its end or, for a field-scoped set, to the reply of its read
SetInvoke(args) ==
    /\ pc = "idle"
    /\ disturbed' = FALSE
    /\ LET res == SetResolved[args]
       IN  \/ SetRejected(res)
           \/ SetWhole(res)
           \/ SetField(res)

\* the rest of a field-scoped set: merge and write
SetWrite(fails) ==
    /\ pc = "set_write"
    /\ LET e == set_register_finish(pend.p, pend.r, pend.f, pend.value, pend.val, fails)
       IN  /\ op' = [op EXCEPT !.outcome = e.outcome, !.log = pend.log \o e.log]
           /\ mem' = IF e.stored THEN store(mem, e.addr, e.final) ELSE mem
    /\ pc' = "done"
    /\ pend' = NoPend
    /\ UNCHANGED disturbed

\* the command has returned: gdb is back at its prompt, and nothing of the
\* command is kept
Prompt ==
    /\ pc = "done"
    /\ pc' = "idle"
    /\ op' = NoOp
    /\ disturbed' = FALSE
    /\ UNCHANGED <<mem, pend>>

\* the target hardware or another session changes a word of the target,
\* wherever the program waits: for the operator at the prompt, or for the
\* backend between the read and the write of a set and between two rows of a get
HwChange(addr, w) ==
    /\ pc # "done"
    /\ mem[addr] # w
    /\ mem' = [mem EXCEPT ![addr] = w]
    /\ disturbed' = (pc = "set_write")
    /\ UNCHANGED <<pc, pend, op>>

Next ==
    \/ \E args \in GetArgs : Get(args)
    \/ \E kind \in ReplyKinds : GetRead(kind)
    \/ \E args \in InfoArgs : Info(args, FALSE)
    \/ Info(<<>>, TRUE)
    \/ \E args \in SetArgs : SetInvoke(args)
    \/ \E fails \in BOOLEAN : SetWrite(fails)
    \/ Prompt
    \/ \E addr \in Addresses, w \in Words : HwChange(addr, w)

Spec == Init /\ [][Next]_vars

----------------------------------------------------------------------------
(* Properties *)

\* the entities the last command went on with
OpPeripheral == Peripherals[op.p]
OpRegister == OpPeripheral.registers[op.r]
OpField == OpRegister.fields[op.f]
OpAddress == address(OpPeripheral, OpRegister)

Reads(log) == SelectSeq(log, LAMBDA c : c.cmd = "read")
Writes(log) == SelectSeq(log, LAMBDA c : c.cmd = "write")

\* a field-scoped set that handed a word to the transport write
FieldWriteIssued ==
    /\ op.cmd = "set"
    /\ op.f # 0
    /\ op.outcome \in {"ok", "gdb.error"}

\* the word that set handed to the transport write
WrittenWord == Writes(op.log)[1].value

\* bit i of x, x a Python integer
Bit(x, i) == (x \div Pow2(i)) % 2

InField(field, i) ==
    field.bit_offset <= i /\ i < field.bit_offset + field.bit_width

\* C1: round trip of the bit-field codec: when a field-scoped set of a value v
\* with 0 <= v <= (1 << bit_width) - 1 hands a word to the transport write,
\* get_field_value of that word at the field's offset and width is v.
C1_RoundTrip ==
    (FieldWriteIssued /\ 0 <= op.value /\ op.value <= Pow2(OpField.bit_width) - 1)
        => get_field_value(OpField.bit_offset, OpField.bit_width, WrittenWord) = op.value

\* a set changed a two-bit field whose bits in the word read were different
C1_Witness ==
    /\ FieldWriteIssued
    /\ OpField.bit_width = 2
    /\ op.value = 2
    /\ get_field_value(OpField.bit_offset, OpField.bit_width, op.word) = 1
    /\ get_field_value(OpField.bit_offset, OpField.bit_width, WrittenWord) = 2

\* C2: a field-scoped write changes only the field's own bits: every bit
\* outside [bit_offset, bit_offset + bit_width) of the word handed to the
\* transport write equals that bit of the word read.
C2_OnlyOwnBits ==
    FieldWriteIssued
        => \A i \in 0..(WordBits - 1) :
              ~InField(OpField, i) => Bit(WrittenWord, i) = Bit(op.word, i)

\* C3: no partial write: a set that fails the width check or a permission
\* check issues no transport write and leaves the target as it was; a
\* field-scoped set on a READ_ONLY register that got a word from its read ends
\* NotWritable, with no write issued and the target unchanged.
C3_NoPartialWrite ==
    [][(op'.cmd = "set" /\ pc' = "done") =>
          /\ op'.outcome \in {"ValueTooWide", "NotReadableError", "NotWritableError"}
                => (Writes(op'.log) = <<>> /\ mem' = mem)
          /\ (/\ op'.f # 0
              /\ Peripherals[op'.p].registers[op'.r].access = READ_ONLY
              /\ op'.log # <<>>
              /\ op'.outcome # "TypeError")
                => /\ op'.outcome = "NotWritableError"
                   /\ Writes(op'.log) = <<>>
                   /\ mem' = mem]_vars

\* a field-scoped set on a READ_ONLY register has ended NotWritable
C3_Witness ==
    /\ op.cmd = "set"
    /\ op.f # 0
    /\ OpRegister.access = READ_ONLY
    /\ op.outcome = "NotWritableError"
    /\ Writes(op.log) = <<>>

\* C4: permission checks are fail-fast: a command that ends NotReadable or
\* NotWritable issued no transport command of any kind, neither a read nor a
\* write, for whole-register and field-scoped sets alike.
C4_FailFast ==
    op.outcome \in {"NotReadableError", "NotWritableError"} => op.log = <<>>

\* C5: the narrowest access mode governs a write: a field-scoped set that
\* reaches the write step for a field whose own access mode is not writable
\* ends NotWritable and issues no transport write.
C5_FieldAccessGoverns ==
    (/\ op.cmd = "set"
     /\ op.f # 0
     /\ op.outcome \in {"ok", "gdb.error", "NotWritableError"}
     /\ OpField.access \notin {AccessNone, WRITE_ONLY, READ_WRITE, WRITE_ONCE,
                               READ_WRITE_ONCE})
        => (op.outcome = "NotWritableError" /\ Writes(op.log) = <<>>)

\* C6: a get that lists several registers and whose transport read failed for
\* exactly one of them writes a table of all the registers listed, exactly one
\* row of which is an error row.
C6_ReadFailureIsolated ==
    (/\ op.cmd = "get"
     /\ Len(op.rm) >= 2
     /\ Len(SelectSeq(op.log, LAMBDA c : c.reply \in {"noparse", "raise"})) = 1)
        => /\ op.outcome = "Registers"
           /\ Len(op.rows) = Len(op.rm)
           /\ Len(SelectSeq(op.rows, LAMBDA row : row.kind = "error")) = 1

\* C7: exact match wins over prefix ambiguity: when the query is the full name
\* of one candidate and a proper prefix of a sibling's name, get and info go
\* on with that candidate alone.
C7_ExactMatchWins ==
    /\ (/\ op.cmd \in {"get", "info"}
        /\ op.outcome \notin {"InvalidParameter", "IndexError", "Peripherals"}
        /\ \E j \in 1..Len(Peripherals) :
              /\ Peripherals[j].name # op.args[1]
              /\ startswith(Peripherals[j].name, op.args[1]))
          => \A i \in 1..Len(Peripherals) :
                Peripherals[i].name = op.args[1] => op.p = i
    /\ (/\ op.cmd = "info"
        /\ op.p # 0
        /\ Len(op.args) >= 2
        /\ \E j \in 1..Len(OpPeripheral.registers) :
              /\ OpPeripheral.registers[j].name # op.args[2]
              /\ startswith(OpPeripheral.registers[j].name, op.args[2]))
          => \A i \in 1..Len(OpPeripheral.registers) :
                OpPeripheral.registers[i].name = op.args[2] => op.r = i

\* the candidates whose name has the query as a prefix, both compared ignoring case
PrefixIgnoringCase(query) ==
    SelectSeq(Indices(Peripherals),
              LAMBDA i : startswith(upper(Peripherals[i].name), upper(query)))

\* C8: resolution is case-insensitive prefix matching: the peripherals get and
\* info match are those whose declared name has the query as a prefix ignoring
\* case, in declared order: none gives NONE, one UNIQUE, several AMBIGUOUS.
C8_CaseInsensitivePrefix ==
    (/\ op.cmd \in {"get", "info"}
     /\ op.outcome \notin {"InvalidParameter", "IndexError", "Peripherals"})
        => LET expected == PrefixIgnoringCase(op.args[1])
           IN  /\ Len(expected) = 0 => op.outcome = "NoPeripheral"
               /\ Len(expected) = 1 => (op.pm = expected /\ op.p = expected[1])
               /\ Len(expected) > 1 =>
                     (op.outcome = "MultiplePeripherals" /\ op.pm = expected)

\* C9: read after write on a quiescent target: after a field-scoped set of v
\* succeeded, with one read and one write at base_address + address_offset, the
\* next read of the register returns a word whose field bits are v and whose
\* other bits are those of the word the set read.
C9_ReadAfterWrite ==
    (/\ pc = "done"
     /\ op.cmd = "set"
     /\ op.f # 0
     /\ op.outcome = "ok"
     /\ ~disturbed)
        => LET next == read(OpPeripheral, OpRegister,
                            execute_read(mem, "hex", OpAddress))
           IN  /\ Len(op.log) = 2
               /\ op.log[1].cmd = "read" /\ op.log[1].address = OpAddress
               /\ op.log[2] = WriteCmd(OpAddress, WrittenWord, FALSE)
               /\ next.isint
               /\ get_field_value(OpField.bit_offset, OpField.bit_width, next.val)
                     = op.value
               /\ \A i \in 0..(WordBits - 1) :
                     ~InField(OpField, i) => Bit(next.val, i) = Bit(op.word, i)

\* C10: the access policy table: a register is refused a read exactly when its
\* mode is outside {unspecified, read-only, read-write, read-write-once}, and
\* refused a write exactly when its mode is outside {unspecified, write-only,
\* read-write, write-once, read-write-once}.
C10_AccessPolicy ==
    /\ (op.cmd = "get" /\ op.outcome = "Registers") =>
          \A k \in 1..Len(op.rows) :
              (op.rows[k].kind = "access")
                  <=> OpPeripheral.registers[op.rows[k].reg].access
                          \notin {AccessNone, READ_ONLY, READ_WRITE, READ_WRITE_ONCE}
    /\ (op.cmd = "set" /\ op.outcome \in {"ok", "gdb.error", "NotWritableError"}) =>
          ((op.outcome = "NotWritableError")
              <=> OpRegister.access \notin {AccessNone, WRITE_ONLY, READ_WRITE,
                                            WRITE_ONCE, READ_WRITE_ONCE})
    /\ (op.cmd = "set" /\ op.f # 0
            /\ op.outcome \in {"pending", "TypeError", "NotReadableError", "ok",
                               "gdb.error", "NotWritableError"}) =>
          ((op.outcome = "NotReadableError")
              <=> OpRegister.access
                      \notin {AccessNone, READ_ONLY, READ_WRITE, READ_WRITE_ONCE})

\* a get listed registers of every access mode: some refused, some read
C10_Witness ==
    /\ op.cmd = "get"
    /\ op.outcome = "Registers"
    /\ {OpPeripheral.registers[op.rows[k].reg].access : k \in 1..Len(op.rows)}
          = AccessTypes
    /\ \E k \in 1..Len(op.rows) : op.rows[k].kind = "access"
    /\ \E k \in 1..Len(op.rows) : op.rows[k].kind = "value"

\* the siblings whose declared name starts with the upper-cased query
PrefixMatches(siblings, query) ==
    SelectSeq(Indices(siblings), LAMBDA i : startswith(siblings[i].name, upper(query)))

\* the query, not empty, names no sibling in full and is a prefix of more than one
Ambiguous(siblings, query) ==
    /\ query # <<>>
    /\ Len(PrefixMatches(siblings, query)) > 1
    /\ \A i \in 1..Len(siblings) : siblings[i].name # upper(query)

\* the position of the register and of the field name in the arguments of the
\* last command, 0 when the command line has none (the last argument of a set
\* is the value)
RegisterArgAt ==
    IF op.cmd = "set" THEN (IF Len(op.args) >= 3 THEN 2 ELSE 0)
    ELSE IF Len(op.args) >= 2 THEN 2 ELSE 0
FieldArgAt ==
    IF op.cmd = "set" THEN (IF Len(op.args) = 4 THEN 3 ELSE 0)
    ELSE IF op.cmd = "info" /\ Len(op.args) = 3 THEN 3 ELSE 0

\* C11: ambiguous names do not proceed: in get, set and info, when the name
\* given at a level (peripheral, register or field) is a prefix of more than
\* one sibling, the command lists exactly the ambiguous set, goes on with none
\* of its members and issues no transport read or write.
C11_AmbiguousStops ==
    (/\ op.cmd \in {"get", "set", "info"}
     /\ op.outcome \notin {"InvalidParameter", "Peripherals"}
     /\ Len(op.args) >= 1)
        => /\ Ambiguous(Peripherals, op.args[1])
                => /\ op.pm = PrefixMatches(Peripherals, op.args[1])
                   /\ op.p = 0
                   /\ op.log = <<>>
           /\ (op.p # 0 /\ RegisterArgAt # 0
                    /\ Ambiguous(OpPeripheral.registers, op.args[RegisterArgAt]))
                => /\ op.rm = PrefixMatches(OpPeripheral.registers, op.args[RegisterArgAt])
                   /\ op.r = 0
                   /\ op.log = <<>>
           /\ (op.p # 0 /\ op.r # 0 /\ FieldArgAt # 0
                    /\ Ambiguous(OpRegister.fields, op.args[FieldArgAt]))
                => /\ op.fm = PrefixMatches(OpRegister.fields, op.args[FieldArgAt])
                   /\ op.f = 0
                   /\ op.log = <<>>

\* the transport read of the command o failed: the read command raised, or
\* its reply did not parse
ReadFailed(o) ==
    \E k \in 1..Len(o.log) : o.log[k].cmd = "read" /\ o.log[k].reply \in {"noparse", "raise"}

\* C12: a transport read failure aborts a single set: a field-scoped set whose
\* read command raised or whose reply did not parse ends in an error at once,
\* issues no transport write and leaves the target as it was; what read
\* returned is never merged or written as if it were the word read.
C12_ReadFailureAborts ==
    [][(op'.cmd = "set" /\ op'.f # 0 /\ ReadFailed(op'))
          => /\ op'.outcome = "TypeError"
             /\ pc' = "done"
             /\ Writes(op'.log) = <<>>
             /\ mem' = mem]_vars

\* a field-scoped set on a readable, writable register ended in an error
\* because the reply to its read did not parse
C12_Witness ==
    /\ op.cmd = "set"
    /\ op.f # 0
    /\ op.outcome = "TypeError"
    /\ pc = "done"
    /\ allowed_to_write(OpRegister.access)
    /\ op.log = <<ReadCmd(OpAddress, "noparse")>>

\* a bit outside the field differs between the word in the target and the word x
OutsideDiffers(field, target, x) ==
    \E i \in 0..(WordBits - 1) : ~InField(field, i) /\ Bit(target, i) # Bit(x, i)

\* C13: the field-scoped read-modify-write is not atomic: when bits of the
\* register outside the field were changed between the set's read and its
\* write, the set on a writable register whose write command does not fail
\* ends without error, and the word written, which the target then holds, has
\* outside the field the bits of the word read: the external change is lost.
C13_LostUpdate ==
    [][(/\ pc = "set_write"
        /\ pc' = "done"
        /\ allowed_to_write(OpRegister.access)
        /\ op'.outcome # "gdb.error"
        /\ OutsideDiffers(OpField, mem[OpAddress], op.word))
          => /\ op'.outcome = "ok"
             /\ Len(Writes(op'.log)) = 1
             /\ \A i \in 0..(WordBits - 1) :
                   ~InField(OpField, i)
                      => /\ Bit(Writes(op'.log)[1].value, i) = Bit(op.word, i)
                         /\ Bit(mem'[OpAddress], i) = Bit(op.word, i)]_vars

====
